---- MODULE Spec2Model ----
(***************************************************************************)
(* Model of the twilio client library (twilio.go, and the earlier          *)
(* single-operation variant of the same file).                             *)
(*                                                                         *)
(* Every Client method is a blocking function: it issues an HTTP request,  *)
(* waits for the response, decodes it and returns.  A goroutine calling a  *)
(* method is a process; issuing a request and receiving its response are   *)
(* separate steps, so that calls of different goroutines on one shared     *)
(* Client interleave.                                                      *)
(*                                                                         *)
(* Go strings that the code escapes or formats (phone numbers, message     *)
(* bodies, form bodies) are sequences of one-character strings.  Texts     *)
(* that the code only compares and passes on (provider messages, error     *)
(* texts) are atoms.                                                       *)
(***************************************************************************)
EXTENDS Integers, Sequences, FiniteSets, TLC

VARIABLES client, inbox, pc, call, local, reqs, resps, ret

vars == <<client, inbox, pc, call, local, reqs, resps, ret>>

(***************************************************************************)
(* Bounds                                                                  *)
(***************************************************************************)
\* longest list of messages one thread query returns
MaxMsgs == 2
\* number of distinct parseable sent-times, in seconds after the zero instant
MaxTime == 3
\* longest list of candidates the number search returns
MaxCandidates == 2

Procs == {"g1", "g2"}

(***************************************************************************)
(* Values the callers and the provider use                                 *)
(***************************************************************************)
PhoneA == <<"+", "1">>
PhoneB == <<"+", "2">>
Phones == {PhoneA, PhoneB}
\* the numbers the callers send to
Recipients == {PhoneB}
Texts == {<<"h", "i">>, <<" ", "&">>}
ProviderMessages == {"invalid number", "Authenticate"}

\* The Client value New returns (twilio.go: four fields; the earlier variant
\* has the first three).
New(key, token, fromPhone, responseTemplate) ==
    [key |-> key, token |-> token, fromPhone |-> fromPhone,
     responseTemplate |-> responseTemplate]

(***************************************************************************)
(* Strings                                                                 *)
(***************************************************************************)
RECURSIVE Concat(_)
Concat(ss) == IF ss = <<>> THEN <<>> ELSE Head(ss) \o Concat(Tail(ss))

\* url.QueryEscape of one character: a space becomes "+", a reserved
\* character becomes %XX, letters and digits stay.
EscapeChar(c) ==
    CASE c = " " -> <<"+">>
      [] c = "+" -> <<"%", "2", "B">>
      [] c = "&" -> <<"%", "2", "6">>
      [] c = "=" -> <<"%", "3", "D">>
      [] c = "%" -> <<"%", "2", "5">>
      [] OTHER   -> <<c>>

RECURSIVE QueryEscape(_)
QueryEscape(s) ==
    IF s = <<>> THEN <<>> ELSE EscapeChar(Head(s)) \o QueryEscape(Tail(s))

\* fmt.Sprintf(bodyTmpl, ...): "To=%s&From=%s&Body=%s"
bodyTmpl(a, b, c) ==
    Concat(<< <<"T", "o", "=">>, a, <<"&", "F", "r", "o", "m", "=">>, b,
              <<"&", "B", "o", "d", "y", "=">>, c >>)

\* c.getBody(from, to, msg) of twilio.go
getBodySwapped(c, from, to, msg) ==
    bodyTmpl(QueryEscape(from), QueryEscape(to), QueryEscape(msg))

getBody(c, from, to, msg) ==
    bodyTmpl(QueryEscape(to), QueryEscape(from), QueryEscape(msg))

\* c.getBody(to, msg) of the earlier variant: the from number is the client's
getBodyV1(c, to, msg) ==
    bodyTmpl(QueryEscape(to), QueryEscape(c.fromPhone), QueryEscape(msg))

\* c.getUrl(loc): fmt.Sprintf(loc, c.key, c.token, c.key); the template's
\* three holes are the user, the password and the account of the URL.
getUrl(c, loc) ==
    [loc |-> loc, user |-> c.key, pass |-> c.token, account |-> c.key,
     query |-> <<>>]

\* formValues.Encode() of getThread: a parameter is set only when it is not
\* empty, and Encode writes the keys in sorted order (From before To).
EncodeForm(from, to) ==
    LET f == IF from # <<>>
             THEN <<"F", "r", "o", "m", "=">> \o QueryEscape(from) ELSE <<>>
        t == IF to # <<>>
             THEN <<"T", "o", "=">> \o QueryEscape(to) ELSE <<>>
    IN  IF f # <<>> /\ t # <<>> THEN f \o <<"&">> \o t ELSE f \o t

(***************************************************************************)
(* Errors: nil, or an error value with its text                            *)
(***************************************************************************)
nil == [kind |-> "nil", text |-> ""]
\* the error http.Get / http.Post returns
TransportError == [kind |-> "transport", text |-> "connection refused"]
\* the error json.Decoder.Decode returns
DecodeError == [kind |-> "decode", text |-> "invalid character"]
\* errors.New(text)
ErrorsNew(text) == [kind |-> "errorString", text |-> text]

(***************************************************************************)
(* Responses.  delivered: the HTTP call returned a response (err == nil).   *)
(* json: the body is a JSON object.  A field is <<>> when the object does  *)
(* not have it and <<v>> when it has it with value v.                      *)
(***************************************************************************)
Blank ==
    [delivered |-> TRUE, json |-> TRUE, message |-> <<>>, phone_number |-> <<>>,
     available_phone_numbers |-> <<>>, messages |-> <<>>]
NetFail == [Blank EXCEPT !.delivered = FALSE, !.json = FALSE]
Garbage == [Blank EXCEPT !.json = FALSE]
ErrorBody(m) == [Blank EXCEPT !.message = <<m>>]

\* what the messages endpoint may answer to a POST
SendResponses ==
    {NetFail, Garbage, Blank} \cup {ErrorBody(m) : m \in ProviderMessages \cup {""}}

\* the Go string a decoded string field holds
StringField(f) == IF f = <<>> THEN "" ELSE f[1]
\* the same for fields holding a phone number
PhoneField(f) == IF f = <<>> THEN <<>> ELSE f[1]

\* json.NewDecoder(resp.Body).Decode(&r), r an SMS: a body that is not JSON
\* gives an error and leaves r zero.
DecodeSMS(resp) ==
    IF resp.json
    THEN [err |-> nil, r |-> [Message |-> StringField(resp.message)]]
    ELSE [err |-> DecodeError, r |-> [Message |-> ""]]

\* Decode(&r), r a map[string]interface{} (earlier variant): a body that is
\* not JSON leaves the map nil; the map has the keys the object has.
DecodeMap(resp) ==
    IF resp.json
    THEN [err |-> nil, r |-> [message |-> resp.message]]
    ELSE [err |-> DecodeError, r |-> [message |-> <<>>]]

(***************************************************************************)
(* Send / SendWithNumber (twilio.go) after the POST returned               *)
(***************************************************************************)
SendResultFixedText(resp) ==
    IF ~resp.delivered THEN TransportError
    ELSE LET d == DecodeSMS(resp)
         IN  IF d.err # nil THEN d.err
             ELSE IF d.r.Message # "" THEN ErrorsNew("provider error") ELSE nil

SendResult(resp) ==
    IF ~resp.delivered THEN TransportError
    ELSE LET d == DecodeSMS(resp)
         IN  IF d.err # nil THEN d.err
             ELSE IF d.r.Message # "" THEN ErrorsNew(d.r.Message) ELSE nil

\* Send of the earlier variant after the POST returned: the decode error is
\* dropped, and any string under "message" is an error.
SendV1Result(resp) ==
    IF ~resp.delivered THEN TransportError
    ELSE LET d == DecodeMap(resp)
         IN  IF d.r.message # <<>> THEN ErrorsNew(d.r.message[1]) ELSE nil

(***************************************************************************)
(* Messages and their sent-times.  A date text is [layout, sec]: the text  *)
(* of the instant sec seconds after the zero instant (January 1, year 1,   *)
(* 00:00:00 UTC), written in the layout named.  The provider writes        *)
(* date_sent in RFC1123Z; a text in another layout does not parse.         *)
(***************************************************************************)
DateSents ==
    {[layout |-> "RFC3339", sec |-> MaxTime]}
        \cup {[layout |-> "RFC1123Z", sec |-> t] : t \in 1..MaxTime}

\* time.Parse(time.RFC1123Z, value): the instant, or the zero Time and an
\* error when the text is not in that layout.
ParseRFC1123Z(value) ==
    IF value.layout = "RFC1123Z"
    THEN [t |-> value.sec, err |-> FALSE]
    ELSE [t |-> 0, err |-> TRUE]

\* sms.DateSentAsTime(): the parse error is dropped
DateSentAsTimeLate(sms) ==
    LET parsed == ParseRFC1123Z(sms.DateSent)
    IN  IF parsed.err THEN MaxTime + 1 ELSE parsed.t

DateSentAsTime(sms) == ParseRFC1123Z(sms.DateSent).t

\* t.Unix(): the whole seconds of t, counted from January 1, 1970 UTC.  The
\* layout has no fraction of a second, so an instant is a whole number of
\* seconds; Unix() moves the origin by the 62135596800 seconds between the
\* zero instant and 1970, which is the same for every t (and larger than the
\* integers of the model checker), so the instants here stay counted from the
\* zero instant.
Unix(t) == t

\* the less function GetThread gives sort.Slice
lessAscending(a, b) == Unix(DateSentAsTime(a)) < Unix(DateSentAsTime(b))

less(a, b) == Unix(DateSentAsTime(a)) > Unix(DateSentAsTime(b))

Swap(data, i, j) == [data EXCEPT ![i] = data[j], ![j] = data[i]]

\* sort.Slice on a slice of at most 12 elements is an insertion sort:
\*   for i := a + 1; i < b; i++ {
\*       for j := i; j > a && less(j, j-1); j-- { swap(j, j-1) } }
RECURSIVE InsertionInner(_, _)
InsertionInner(data, j) ==
    IF j > 1 /\ less(data[j], data[j - 1])
    THEN InsertionInner(Swap(data, j, j - 1), j - 1)
    ELSE data

RECURSIVE InsertionOuter(_, _)
InsertionOuter(data, i) ==
    IF i > Len(data) THEN data
    ELSE InsertionOuter(InsertionInner(data, i), i + 1)

SortSliceNone(messages) == messages

SortSlice(messages) == InsertionOuter(messages, 2)

\* Decode(&r), r a Thread: Thread has the field "messages" and no other
DecodeThread(resp) ==
    IF resp.json
    THEN [err |-> nil, r |-> [Messages |-> resp.messages]]
    ELSE [err |-> DecodeError, r |-> [Messages |-> <<>>]]

\* c.getThread(from, to) after the GET returned: (*Thread, error)
getThread(resp) ==
    IF ~resp.delivered THEN [thread |-> <<>>, err |-> TransportError]
    ELSE LET d == DecodeThread(resp)
         IN  IF d.err # nil THEN [thread |-> <<>>, err |-> d.err]
             ELSE [thread |-> d.r.Messages, err |-> nil]

\* the lists of at most n messages from `from` to `to`
RECURSIVE SeqsUpTo(_, _)
SeqsUpTo(S, n) ==
    IF n = 0 THEN {<<>>}
    ELSE LET shorter == SeqsUpTo(S, n - 1)
         IN  shorter \cup {Append(s, x) : s \in shorter, x \in S}

ThreadResponses(from, to, n) ==
    {NetFail, Garbage, ErrorBody("Authenticate")}
        \cup {[Blank EXCEPT !.messages = l] :
                l \in SeqsUpTo({[From |-> from, To |-> to, DateSent |-> d] :
                                  d \in DateSents}, n)}

\* the provider's answers to the two one-directional queries, <<from, to>>
Queries == {<<PhoneA, PhoneB>>, <<PhoneB, PhoneA>>}
Inboxes(n) ==
    {[q \in Queries |-> IF q = <<PhoneA, PhoneB>> THEN x ELSE y] :
        x \in ThreadResponses(PhoneA, PhoneB, n),
        y \in ThreadResponses(PhoneB, PhoneA, n)}

(***************************************************************************)
(* AddNumber                                                               *)
(***************************************************************************)
Candidates == {[phone_number |-> <<>>], [phone_number |-> <<PhoneA>>]}

SearchResponses ==
    {NetFail, Garbage, ErrorBody("Authenticate")}
        \cup {[Blank EXCEPT !.available_phone_numbers = l] :
                l \in SeqsUpTo(Candidates, MaxCandidates)}

BuyResponses ==
    {NetFail, Garbage, Blank}
        \cup {ErrorBody(m) : m \in ProviderMessages}
        \cup {[Blank EXCEPT !.phone_number = <<n>>] : n \in Phones}

\* Decode(&r), r a Numbers
DecodeNumbers(resp) ==
    IF resp.json
    THEN [err |-> nil,
          r |-> [Numbers |-> [i \in 1..Len(resp.available_phone_numbers) |->
                                [PhoneNumber |->
                                   PhoneField(resp.available_phone_numbers[i].phone_number)]],
                 Message |-> StringField(resp.message)]]
    ELSE [err |-> DecodeError, r |-> [Numbers |-> <<>>, Message |-> ""]]

\* Decode(&number), number an AvailableNumber
DecodeAvailableNumber(resp) ==
    IF resp.json
    THEN [err |-> nil,
          r |-> [PhoneNumber |-> PhoneField(resp.phone_number),
                 Message |-> StringField(resp.message)]]
    ELSE [err |-> DecodeError, r |-> [PhoneNumber |-> <<>>, Message |-> ""]]

\* AddNumber from the return of the search GET to the choice of the number
\* (lines 213-237): the number to buy, or the error to return
searchStepNoCheck(resp) ==
    IF ~resp.delivered THEN [phoneNumber |-> <<>>, err |-> TransportError]
    ELSE LET d == DecodeNumbers(resp)
         IN  IF d.err # nil THEN [phoneNumber |-> <<>>, err |-> d.err]
             ELSE IF d.r.Message # ""
             THEN [phoneNumber |-> <<>>, err |-> ErrorsNew(d.r.Message)]
             ELSE [phoneNumber |->
                     IF Len(d.r.Numbers) # 0 THEN d.r.Numbers[1].PhoneNumber
                     ELSE <<>>,
                   err |-> nil]

searchStep(resp) ==
    IF ~resp.delivered THEN [phoneNumber |-> <<>>, err |-> TransportError]
    ELSE LET d == DecodeNumbers(resp)
         IN  IF d.err # nil THEN [phoneNumber |-> <<>>, err |-> d.err]
             ELSE IF d.r.Message # ""
             THEN [phoneNumber |-> <<>>, err |-> ErrorsNew(d.r.Message)]
             ELSE LET phoneNumber ==
                          IF Len(d.r.Numbers) # 0
                             /\ d.r.Numbers[1].PhoneNumber # <<>>
                          THEN d.r.Numbers[1].PhoneNumber
                          ELSE <<>>
                  IN  IF phoneNumber = <<>>
                      THEN [phoneNumber |-> <<>>,
                            err |-> ErrorsNew("No numbers available")]
                      ELSE [phoneNumber |-> phoneNumber, err |-> nil]

\* fmt.Sprintf("PhoneNumber=%s&SmsUrl=%s", phoneNumber, c.responseTemplate)
buyBody(c, phoneNumber) ==
    Concat(<< <<"P", "h", "o", "n", "e", "N", "u", "m", "b", "e", "r", "=">>,
              phoneNumber, <<"&", "S", "m", "s", "U", "r", "l", "=">>,
              c.responseTemplate >>)

\* AddNumber after the purchase POST returned (lines 242-253): the decode
\* error is dropped
purchaseStepNoCheck(resp) ==
    IF ~resp.delivered THEN [number |-> <<>>, err |-> TransportError]
    ELSE LET number == DecodeAvailableNumber(resp).r
         IN  [number |-> number.PhoneNumber, err |-> nil]

purchaseStep(resp) ==
    IF ~resp.delivered THEN [number |-> <<>>, err |-> TransportError]
    ELSE LET number == DecodeAvailableNumber(resp).r
         IN  IF number.Message # ""
             THEN [number |-> <<>>, err |-> ErrorsNew(number.Message)]
             ELSE [number |-> number.PhoneNumber, err |-> nil]

(***************************************************************************)
(* State                                                                   *)
(***************************************************************************)
NoCall == [op |-> "none", from |-> <<>>, to |-> <<>>, msg |-> <<>>]
NoLocal == [forwardThread |-> <<>>, phoneNumber |-> <<>>]
NoRet == [messages |-> <<>>, number |-> <<>>, err |-> nil]

Request(method, url, body) == [method |-> method, url |-> url, body |-> body]

\* a call starts: the request goes out
Issue(p, c, nextpc, req) ==
    /\ pc' = [pc EXCEPT ![p] = nextpc]
    /\ call' = [call EXCEPT ![p] = c]
    /\ reqs' = [reqs EXCEPT ![p] = Append(@, req)]
    /\ UNCHANGED <<client, inbox, local, resps, ret>>

\* the call of p returns r
Done(p, resp, r) ==
    /\ pc' = [pc EXCEPT ![p] = "done"]
    /\ resps' = [resps EXCEPT ![p] = Append(@, resp)]
    /\ ret' = [ret EXCEPT ![p] = r]
    /\ UNCHANGED <<client, inbox, call, local, reqs>>

SendCall(p, to, msg) ==
    /\ pc[p] = "idle"
    /\ Issue(p, [op |-> "Send", from |-> <<>>, to |-> to, msg |-> msg], "Send",
             Request("POST", getUrl(client, "messagesLoc"),
                     getBody(client, client.fromPhone, to, msg)))

SendReturn(p, resp) ==
    /\ pc[p] = "Send"
    /\ Done(p, resp, [NoRet EXCEPT !.err = SendResult(resp)])

SendWithNumberCall(p, from, to, msg) ==
    /\ pc[p] = "idle"
    /\ Issue(p, [op |-> "SendWithNumber", from |-> from, to |-> to, msg |-> msg],
             "SendWithNumber",
             Request("POST", getUrl(client, "messagesLoc"),
                     getBody(client, from, to, msg)))

SendWithNumberReturn(p, resp) ==
    /\ pc[p] = "SendWithNumber"
    /\ Done(p, resp, [NoRet EXCEPT !.err = SendResult(resp)])

SendV1Call(p, to, msg) ==
    /\ pc[p] = "idle"
    /\ Issue(p, [op |-> "SendV1", from |-> <<>>, to |-> to, msg |-> msg], "SendV1",
             Request("POST", getUrl(client, "twilioLoc"), getBodyV1(client, to, msg)))

SendV1Return(p, resp) ==
    /\ pc[p] = "SendV1"
    /\ Done(p, resp, [NoRet EXCEPT !.err = SendV1Result(resp)])

\* GetThread(host, client): the forward query goes out
GetThreadCall(p, host, cl) ==
    /\ pc[p] = "idle"
    /\ Issue(p, [op |-> "GetThread", from |-> host, to |-> cl, msg |-> <<>>],
             "forward",
             Request("GET",
                     [getUrl(client, "getMessages") EXCEPT !.query = EncodeForm(host, cl)],
                     <<>>))

\* the forward query returns; on success the reverse query goes out
GetThreadForward(p) ==
    /\ pc[p] = "forward"
    /\ LET resp == inbox[<<call[p].from, call[p].to>>]
           forwardThread == getThread(resp)
       IN  IF forwardThread.err # nil
           THEN Done(p, resp, [NoRet EXCEPT !.err = forwardThread.err])
           ELSE /\ pc' = [pc EXCEPT ![p] = "reverse"]
                /\ resps' = [resps EXCEPT ![p] = Append(@, resp)]
                /\ local' = [local EXCEPT ![p].forwardThread = forwardThread.thread]
                /\ reqs' = [reqs EXCEPT ![p] =
                              Append(@, Request("GET",
                                  [getUrl(client, "getMessages") EXCEPT
                                     !.query = EncodeForm(call[p].to, call[p].from)],
                                  <<>>))]
                /\ UNCHANGED <<client, inbox, call, ret>>

\* the reverse query returns; the two lists are appended and sorted
GetThreadReverse(p) ==
    /\ pc[p] = "reverse"
    /\ LET resp == inbox[<<call[p].to, call[p].from>>]
           reverseThread == getThread(resp)
       IN  IF reverseThread.err # nil
           THEN Done(p, resp, [NoRet EXCEPT !.err = reverseThread.err])
           ELSE Done(p, resp,
                     [NoRet EXCEPT !.messages =
                        SortSlice(local[p].forwardThread \o reverseThread.thread)])

\* AddNumber(): the search goes out
AddNumberCall(p) ==
    /\ pc[p] = "idle"
    /\ Issue(p, [NoCall EXCEPT !.op = "AddNumber"], "find",
             Request("GET", getUrl(client, "findNumber"), <<>>))

\* the search returns; with a number to buy the purchase goes out
AddNumberFound(p, resp) ==
    /\ pc[p] = "find"
    /\ LET found == searchStep(resp)
       IN  IF found.err # nil
           THEN Done(p, resp, [NoRet EXCEPT !.err = found.err])
           ELSE /\ pc' = [pc EXCEPT ![p] = "buy"]
                /\ resps' = [resps EXCEPT ![p] = Append(@, resp)]
                /\ local' = [local EXCEPT ![p].phoneNumber = found.phoneNumber]
                /\ reqs' = [reqs EXCEPT ![p] =
                              Append(@, Request("POST", getUrl(client, "buyNumber"),
                                                buyBody(client, found.phoneNumber)))]
                /\ UNCHANGED <<client, inbox, call, ret>>

\* the purchase returns
AddNumberBought(p, resp) ==
    /\ pc[p] = "buy"
    /\ LET bought == purchaseStep(resp)
       IN  Done(p, resp, [NoRet EXCEPT !.number = bought.number,
                                       !.err = bought.err])

\* the Client the application constructs
ConfiguredClient == New("AC1", "secret", PhoneA, <<"c", "b">>)

\* the state after New, before any call
Fresh ==
    /\ client = ConfiguredClient
    /\ pc = [p \in Procs |-> "idle"]
    /\ call = [p \in Procs |-> NoCall]
    /\ local = [p \in Procs |-> NoLocal]
    /\ reqs = [p \in Procs |-> <<>>]
    /\ resps = [p \in Procs |-> <<>>]
    /\ ret = [p \in Procs |-> NoRet]

\* All the operations, interleaved.  What the thread queries return matters
\* to GetThread alone, so here the provider holds no message for either
\* query (it may still fail, or answer with garbage or an error object);
\* SpecThread runs GetThread against threads with messages.
Init == Fresh /\ inbox \in Inboxes(0)

Next ==
    \E p \in Procs :
        \/ \E to \in Recipients, msg \in Texts : SendCall(p, to, msg)
        \/ \E resp \in SendResponses : SendReturn(p, resp)
        \/ \E from \in Phones, to \in Recipients, msg \in Texts :
               SendWithNumberCall(p, from, to, msg)
        \/ \E resp \in SendResponses : SendWithNumberReturn(p, resp)
        \/ \E to \in Recipients, msg \in Texts : SendV1Call(p, to, msg)
        \/ \E resp \in SendResponses : SendV1Return(p, resp)
        \/ \E q \in Queries : GetThreadCall(p, q[1], q[2])
        \/ GetThreadForward(p)
        \/ GetThreadReverse(p)
        \/ AddNumberCall(p)
        \/ \E resp \in SearchResponses : AddNumberFound(p, resp)
        \/ \E resp \in BuyResponses : AddNumberBought(p, resp)

Spec == Init /\ [][Next]_vars

\* Thread retrieval alone, against every provider data within the bounds
InitThread == Fresh /\ inbox \in Inboxes(MaxMsgs)

NextThread ==
    \E p \in Procs :
        \/ \E q \in Queries : GetThreadCall(p, q[1], q[2])
        \/ GetThreadForward(p)
        \/ GetThreadReverse(p)

SpecThread == InitThread /\ [][NextThread]_vars

(***************************************************************************)
(* Properties                                                              *)
(***************************************************************************)
SendOps == {"Send", "SendWithNumber", "SendV1"}

\* the response carries a provider message that is not empty
CarriesMessage(resp) ==
    resp.delivered /\ resp.json /\ resp.message # <<>> /\ resp.message[1] # ""

\* C1: whenever a call has returned and one of the responses it received was
\* a JSON object with a non-empty message, the call returned the error
\* errors.New(that message).  GetThread breaks it.
ProviderMessageSurfaced ==
    \A p \in Procs :
        pc[p] = "done" =>
            \A i \in 1..Len(resps[p]) :
                CarriesMessage(resps[p][i]) =>
                    ret[p].err = ErrorsNew(resps[p][i].message[1])

\* C2: whenever a call has returned and one of the responses it received did
\* not decode, the call returned the decoding error.  The purchase step of
\* AddNumber and Send of the earlier variant break it.
DecodeErrorSurfaced ==
    \A p \in Procs :
        pc[p] = "done" =>
            \A i \in 1..Len(resps[p]) :
                (resps[p][i].delivered /\ ~resps[p][i].json) =>
                    ret[p].err = DecodeError

\* C3: a send whose response carries the non-empty message m returns an
\* error whose text is exactly m.
SendErrorTextExact ==
    \A p \in Procs :
        (pc[p] = "done" /\ call[p].op \in SendOps /\ CarriesMessage(resps[p][1])) =>
            /\ ret[p].err # nil
            /\ ret[p].err.text = resps[p][1].message[1]

SendErrorTextExactWitness ==
    \E p \in Procs :
        /\ pc[p] = "done" /\ call[p].op = "SendWithNumber"
        /\ resps[p][1] = ErrorBody("invalid number")
        /\ ret[p].err.text = "invalid number"

\* C4: a send whose response was delivered and decoded, with no message
\* field or an empty one, returns nil.  Send of the earlier variant breaks it.
SendNoMessageNoError ==
    \A p \in Procs :
        (/\ pc[p] = "done" /\ call[p].op \in SendOps
         /\ resps[p][1].delivered /\ resps[p][1].json
         /\ resps[p][1].message \in {<<>>, <<"">>}) =>
            ret[p].err = nil

\* the sent-time a message is ordered by: the instant its date text names in
\* RFC1123Z, the zero instant otherwise
Parses(sms) == sms.DateSent.layout = "RFC1123Z"
SentTime(sms) == IF Parses(sms) THEN sms.DateSent.sec ELSE 0
Count(x, s) == Cardinality({i \in 1..Len(s) : s[i] = x})
SameMessages(s, t) ==
    /\ Len(s) = Len(t)
    /\ \A i \in 1..Len(s) : Count(s[i], s) = Count(s[i], t)
ThreadDone(p) == pc[p] = "done" /\ call[p].op = "GetThread"
\* what the provider holds for the two directions of the call of p
Forward(p) == inbox[<<call[p].from, call[p].to>>]
Reverse(p) == inbox[<<call[p].to, call[p].from>>]
BothDecode(p) ==
    /\ Forward(p).delivered /\ Forward(p).json
    /\ Reverse(p).delivered /\ Reverse(p).json

\* C5: when both sub-queries succeed GetThread returns the messages of the
\* two queries, none lost and none twice, each next to one sent no later.
ThreadMergedDescending ==
    \A p \in Procs :
        (ThreadDone(p) /\ BothDecode(p)) =>
            /\ ret[p].err = nil
            /\ SameMessages(ret[p].messages,
                            Forward(p).messages \o Reverse(p).messages)
            /\ \A i \in 1..(Len(ret[p].messages) - 1) :
                   SentTime(ret[p].messages[i]) >= SentTime(ret[p].messages[i + 1])

\* three messages sent at T1 < T2 < T3, the oldest first in the forward
\* answer and the others in the reverse answer, come out as T3, T2, T1
ThreadMergedDescendingWitness ==
    \E p \in Procs :
        /\ ThreadDone(p) /\ BothDecode(p)
        /\ Len(Forward(p).messages) = 1 /\ Len(Reverse(p).messages) = 2
        /\ SentTime(Forward(p).messages[1]) = 2
        /\ SentTime(Reverse(p).messages[1]) = 1
        /\ SentTime(Reverse(p).messages[2]) = 3
        /\ [i \in 1..3 |-> SentTime(ret[p].messages[i])] = <<3, 2, 1>>

HasUnparseable(s) == \E i \in 1..Len(s) : ~Parses(s[i])

\* C6: a message whose date text does not parse comes after every message
\* whose date text parses, and GetThread neither fails nor drops a message
\* because of it.
UnparseableSortsLast ==
    \A p \in Procs :
        (/\ ThreadDone(p) /\ BothDecode(p)
         /\ HasUnparseable(Forward(p).messages \o Reverse(p).messages)) =>
            /\ ret[p].err = nil
            /\ Len(ret[p].messages) =
                   Len(Forward(p).messages) + Len(Reverse(p).messages)
            /\ \A i, j \in 1..Len(ret[p].messages) :
                   (~Parses(ret[p].messages[i]) /\ Parses(ret[p].messages[j]))
                       => j < i

UnparseableSortsLastWitness ==
    \E p \in Procs :
        /\ ThreadDone(p) /\ BothDecode(p)
        /\ Len(Forward(p).messages) = 2 /\ Len(Reverse(p).messages) = 1
        /\ ~Parses(Forward(p).messages[1]) /\ Parses(Forward(p).messages[2])
        /\ Parses(Reverse(p).messages[1])
        /\ ~Parses(ret[p].messages[3])
        /\ Parses(ret[p].messages[1]) /\ Parses(ret[p].messages[2])

\* the search answered with a JSON object without message
SearchDecoded(resp) ==
    resp.delivered /\ resp.json /\ StringField(resp.message) = ""
IsPurchase(req) == req.method = "POST" /\ req.url.loc = "buyNumber"
IsSearch(req) == req.method = "GET" /\ req.url.loc = "findNumber"

\* C7: AddNumber returns "No numbers available" when the search decodes to
\* zero candidates, and then issues no purchase; a purchase is issued only as
\* the second request, after a search that decoded, carried no message and
\* had a first candidate with a number.
NoNumbersNoPurchase ==
    \A p \in Procs :
        call[p].op = "AddNumber" =>
            /\ (/\ Len(resps[p]) >= 1
                /\ SearchDecoded(resps[p][1])
                /\ resps[p][1].available_phone_numbers = <<>>) =>
                   /\ pc[p] = "done"
                   /\ ret[p].err = ErrorsNew("No numbers available")
                   /\ ret[p].number = <<>>
                   /\ Len(reqs[p]) = 1 /\ IsSearch(reqs[p][1])
            /\ \A i \in 1..Len(reqs[p]) :
                   IsPurchase(reqs[p][i]) =>
                       /\ i = 2
                       /\ Len(resps[p]) >= 1
                       /\ SearchDecoded(resps[p][1])
                       /\ resps[p][1].available_phone_numbers # <<>>
                       /\ resps[p][1].available_phone_numbers[1].phone_number # <<>>

NoNumbersNoPurchaseWitness ==
    \E p \in Procs :
        /\ call[p].op = "AddNumber" /\ pc[p] = "done"
        /\ resps[p] = <<Blank>>
        /\ ret[p].err.text = "No numbers available"
        /\ Len(reqs[p]) = 1

\* C8: when the purchase response carries a non-empty message, AddNumber
\* returns the empty number and an error with exactly that message, having
\* issued one search and then one purchase and nothing else.
PurchaseErrorPropagated ==
    \A p \in Procs :
        (/\ call[p].op = "AddNumber" /\ pc[p] = "done"
         /\ Len(resps[p]) = 2 /\ CarriesMessage(resps[p][2])) =>
            /\ ret[p].number = <<>>
            /\ ret[p].err = ErrorsNew(resps[p][2].message[1])
            /\ Len(reqs[p]) = 2
            /\ IsSearch(reqs[p][1]) /\ IsPurchase(reqs[p][2])

PurchaseErrorPropagatedWitness ==
    \E p \in Procs :
        /\ call[p].op = "AddNumber" /\ pc[p] = "done"
        /\ Len(resps[p]) = 2 /\ resps[p][2] = ErrorBody("invalid number")
        /\ ret[p].err.text = "invalid number"
        /\ Len(reqs[p]) = 2

\* two finished calls with the directions exchanged
Opposite(p, q) ==
    /\ ThreadDone(p) /\ ThreadDone(q)
    /\ ret[p].err = nil /\ ret[q].err = nil
    /\ call[p].from = call[q].to /\ call[p].to = call[q].from
    /\ call[p].from # call[p].to

\* C9 as stated: GetThread(A, B) and GetThread(B, A) against the same
\* provider data return the same sequence.
ThreadOrderIndependent ==
    \A p, q \in Procs :
        Opposite(p, q) => ret[p].messages = ret[q].messages

Times(s) == [i \in 1..Len(s) |-> SentTime(s[i])]
NoTies(s) == \A i, j \in 1..Len(s) : SentTime(s[i]) = SentTime(s[j]) => i = j

\* C9 amended: the two calls return the same messages with the same sequence
\* of sent-times, and the same sequence when no two messages have the same
\* sent-time.
ThreadOrderIndependentUpToTies ==
    \A p, q \in Procs :
        Opposite(p, q) =>
            /\ SameMessages(ret[p].messages, ret[q].messages)
            /\ Times(ret[p].messages) = Times(ret[q].messages)
            /\ NoTies(ret[p].messages) => ret[p].messages = ret[q].messages

ThreadOrderIndependentWitness ==
    \E p, q \in Procs :
        /\ Opposite(p, q)
        /\ Len(Forward(p).messages) = 2 /\ Len(Reverse(p).messages) = 2
        /\ NoTies(ret[p].messages)
        /\ Forward(p).messages \o Reverse(p).messages # ret[p].messages
        /\ Reverse(p).messages \o Forward(p).messages # ret[p].messages
        /\ ret[p].messages = ret[q].messages

\* What the provider reads in a form body: url.ParseQuery splits it at "&",
\* each pair at "=", and unescapes the two sides.
RECURSIVE SplitAt(_, _, _)
SplitAt(s, sep, piece) ==
    IF s = <<>> THEN <<piece>>
    ELSE IF Head(s) = sep THEN <<piece>> \o SplitAt(Tail(s), sep, <<>>)
    ELSE SplitAt(Tail(s), sep, Append(piece, Head(s)))

HexChar(h) ==
    CASE h = <<"2", "B">> -> "+"
      [] h = <<"2", "6">> -> "&"
      [] h = <<"3", "D">> -> "="
      [] h = <<"2", "5">> -> "%"
      [] OTHER -> "?"

RECURSIVE QueryUnescape(_)
QueryUnescape(s) ==
    IF s = <<>> THEN <<>>
    ELSE IF Head(s) = "+" THEN <<" ">> \o QueryUnescape(Tail(s))
    ELSE IF Head(s) = "%" /\ Len(s) >= 3
    THEN <<HexChar(SubSeq(s, 2, 3))>> \o QueryUnescape(SubSeq(s, 4, Len(s)))
    ELSE <<Head(s)>> \o QueryUnescape(Tail(s))

\* the pairs <<key, value>> of a form body, in its order
ParseQuery(body) ==
    LET pairs == SplitAt(body, "&", <<>>)
    IN  [i \in 1..Len(pairs) |->
            LET kv == SplitAt(pairs[i], "=", <<>>)
            IN  <<QueryUnescape(kv[1]),
                  IF Len(kv) >= 2 THEN QueryUnescape(kv[2]) ELSE <<>> >>]

FormOf(to, from, msg) ==
    << << <<"T", "o">>, to >>, << <<"F", "r", "o", "m">>, from >>,
       << <<"B", "o", "d", "y">>, msg >> >>

RequestsCarryOwnArguments ==
    \A p \in Procs :
        \A i \in 1..Len(reqs[p]) :
            /\ call[p].op \in {"Send", "SendV1"} =>
                   ParseQuery(reqs[p][i].body) =
                       FormOf(call[p].to, ConfiguredClient.fromPhone, call[p].msg)
            /\ call[p].op = "SendWithNumber" =>
                   ParseQuery(reqs[p][i].body) =
                       FormOf(call[p].to, call[p].from, call[p].msg)

\* C10: no step changes the Client, and under every interleaving the request
\* of a Send carries the configured from number and the request of a
\* SendWithNumber carries the from, to and body of its own call.
ClientImmutable ==
    /\ [][client' = client]_vars
    /\ []RequestsCarryOwnArguments

ClientImmutableWitness ==
    /\ pc["g1"] = "Send" /\ pc["g2"] = "SendWithNumber"
    /\ call["g2"].from = PhoneB /\ call["g2"].msg # call["g1"].msg
    /\ client.fromPhone = PhoneA
    /\ ParseQuery(reqs["g1"][1].body)[2][2] = PhoneA
    /\ ParseQuery(reqs["g2"][1].body)[2][2] = PhoneB
====
